---- MODULE Spec2Model ----
(***************************************************************************)
(* A model of the reservation protocol of simple-job-queue: the Redis      *)
(* driver (src/src/drivers/RedisDriver.js), the Sqlite driver              *)
(* (src/unnamed/part_001) and the client's handle flow on top of them.     *)
(*                                                                         *)
(* Every awaited store command (keys, get, del, set, setnx, lock, unlock,  *)
(* a SQL statement) is one atomic step of the calling worker; the code     *)
(* between two awaits is local and is part of the step that follows it.    *)
(* The payload and created_at of a job are carried unchanged by every      *)
(* operation and are left out of the job record.                           *)
(***************************************************************************)
EXTENDS Integers, FiniteSets, Sequences, TLC

\* ---------------------------------------------------------------- bounds
NumWorkers == 2
NumUuids == 2
NumQueues == 1
\* The calls the workers make in one run, all together.
MaxCalls == 3

Workers == 1..NumWorkers
Uuids == 1..NumUuids
Queues == 1..NumQueues

\* ------------------------------------------------------------ JS values
\* `${undefined}` in a key or lock name: the uuid / queue of a job object
\* that has no such field.
UNDEF == 0
\* A null (or missing) timestamp: falsy in `jobCopy.failed_at ? ... : ...`.
NullT == 0
\* The value getCurrentTimestamp() returns.
Now == 1

\* A nullable value is <<>> (null) or <<v>>.
Null == <<>>
Some(v) == <<v>>

\* The job object: uuid, queue, reserved_at, failed_at.
MkJob(u, q, r, f) == [uuid |-> u, queue |-> q, reserved_at |-> r, failed_at |-> f]
\* `{ ...job }` of a null job is the empty object: every field undefined.
EmptyObj == MkJob(UNDEF, UNDEF, NullT, NullT)
Spread(j) == IF j = Null THEN EmptyObj ELSE j[1]
\* The job QueueClient.pushJob hands to storeJob.
NewJob(q, u) == MkJob(u, q, NullT, NullT)

\* ------------------------------------------------------------- Redis keys
States == {"available", "reserved", "failed"}
ANY == -1
\* The key `jobs_<st>:<q>/<u>`.
Key(st, q, u) == [st |-> st, q |-> q, u |-> u]
KeySpace == [st : States, q : Queues \cup {UNDEF}, u : Uuids \cup {UNDEF}]
\* keysResult[0] || null when nothing matches.
NoKey == Key("none", UNDEF, UNDEF)
\* A glob pattern over the key space: each part is a value or ANY (`*`).
Pattern(st, q, u) == [st |-> st, q |-> q, u |-> u]
Matches(p, k) ==
    /\ (p.st = "*" \/ p.st = k.st)
    /\ (p.q = ANY \/ p.q = k.q)
    /\ (p.u = ANY \/ p.u = k.u)

\* --------------------------------------------------------------- state
VARIABLES
    kv,      \* Redis: key -> nullable job (the JSON stored under the key)
    locks,   \* Redis: the lock resources <<queue, uuid>> currently held
    conn,    \* Redis: per worker, whether this.#connection is set
    rows,    \* Sqlite: uuid -> nullable row of table jobs
    tx,      \* Sqlite: the connections (workers) inside an exclusive transaction
    wk,      \* per worker: position and locals of the running operation
    hist,    \* history, per uuid: what has happened to the job so far
    ncalls   \* history: the calls made so far

vars == <<kv, locks, conn, rows, tx, wk, hist, ncalls>>

\* A worker's locals.
\*   pc    position in the running operation ("idle": none running)
\*   op    the driver operation running
\*   cl    the client operation that runs it ("none": a direct driver call)
\*   arg   the queue or uuid the operation was called with
\*   key   the key a `keys` lookup returned
\*   job   the job read (nullable), then the jobCopy being written
\*   cur   #markJob's currentState;  mark  #markJob's mark
\*   lk    the lock resource held (nullable)
\*   fail  #markJob is in its catch block
\*   res   what the driver operation returned: kind and job
\*   hr    the handler's outcome in a client operation
\*   out   how the client operation ended
IdleRec ==
    [pc |-> "idle", op |-> "none", cl |-> "none", arg |-> UNDEF, key |-> NoKey,
     job |-> Null, cur |-> "none", mark |-> "none", lk |-> Null,
     fail |-> FALSE, res |-> [kind |-> "none", job |-> EmptyObj], hr |-> "none",
     out |-> "none"]

HistInit == [grants |-> 0, pushes |-> 0, deleted |-> FALSE, failed |-> FALSE]

Init ==
    /\ kv = [k \in KeySpace |-> Null]
    /\ locks = {}
    /\ conn = [w \in Workers |-> FALSE]
    /\ rows = [u \in Uuids |-> Null]
    /\ tx = {}
    /\ wk = [w \in Workers |-> IdleRec]
    /\ hist = [u \in Uuids |-> HistInit]
    /\ ncalls = 0

\* ------------------------------------------------------ returning a value
RetVal(kind, job) == [kind |-> kind, job |-> job]
\* The operation of record r ends with result (kind, job): locals are dropped.
Ret(r, kind, job) ==
    [IdleRec EXCEPT !.pc = "ret", !.op = r.op, !.cl = r.cl, !.arg = r.arg,
                    !.hr = r.hr, !.res = RetVal(kind, job)]

FetchOps == {"getJob", "getJobByUuid", "getFailedJob"}

\* ----------------------------------------------------------- history
Cap2(n) == IF n >= 2 THEN 2 ELSE n + 1
\* A fetch operation returned the job of uuid u to its caller.
Granted(h, u) ==
    IF u \in Uuids THEN [h EXCEPT ![u].grants = Cap2(@)] ELSE h
\* storeJob(u) was called.
Pushed(h, u) == [h EXCEPT ![u].pushes = Cap2(@), ![u].grants = 0,
                          ![u].deleted = FALSE]
\* The job of uuid u was put in Failed.
Failed(h, u) ==
    IF u \in Uuids THEN [h EXCEPT ![u].failed = TRUE, ![u].grants = 0] ELSE h
\* deleteJob removed the job of uuid u.
Deleted(h, u) ==
    IF u \in Uuids THEN [h EXCEPT ![u].deleted = TRUE] ELSE h

\* ====================================================== the Redis driver
\* #getJobKeyByPattern: the results `keysResult[0] || null` can have. The
\* enumeration order of KEYS is unspecified: any matching key may come first.
KeysFirst(p) ==
    LET found == {k \in KeySpace : kv[k] # Null /\ Matches(p, k)}
    IN  IF found = {} THEN {NoKey} ELSE found

\* The outcomes of `await del(null)`: the client either rejects the null
\* argument (the promise rejects) or sends a key no job is stored under
\* (nothing is deleted). The driver leaves this to the injected client.
DelNullOutcomes == {"noop", "throw"}

\* #reserveJob, up to its call of #markJob.
ReserveJobCopy(j) ==
    [Spread(j) EXCEPT !.reserved_at = Now, !.failed_at = NullT]
ReserveCurrentState(j) ==
    IF Spread(j).failed_at # NullT THEN "failed" ELSE "available"
\* #failJob, up to its call of #markJob.
FailJobCopy(j) ==
    [Spread(j) EXCEPT !.failed_at = Now, !.reserved_at = NullT]

\* getJob alone checks the job it looked up: `if (!job) return null`.
ChecksForNoJob(op) == op = "getJob"

\* What follows #getJobByPattern returning j (nullable) in operation r.op.
AfterLookup(r, j) ==
    IF ChecksForNoJob(r.op) /\ j = Null
    THEN Ret(r, "null", EmptyObj)
    ELSE IF r.op \in FetchOps
    THEN [r EXCEPT !.pc = "lock", !.key = NoKey, !.job = Some(ReserveJobCopy(j)),
                   !.cur = ReserveCurrentState(j), !.mark = "reserved"]
    ELSE [r EXCEPT !.pc = "lock", !.key = NoKey, !.job = Some(FailJobCopy(j)),
                   !.cur = "reserved", !.mark = "failed"]

\* #getJobByPattern's first command, `keys(pattern)`, in operation r.op: with
\* no key found the lookup is over (job null), else `get(key)` follows.
Lookup(w, r, p) ==
    \E k \in KeysFirst(p) :
        wk' = [wk EXCEPT ![w] =
                 IF k = NoKey THEN AfterLookup(r, Null)
                 ELSE [r EXCEPT !.pc = "get", !.key = k]]

\* A worker that runs nothing makes one more call.
NewCall(w) ==
    /\ wk[w].pc = "idle"
    /\ ncalls < MaxCalls
    /\ ncalls' = ncalls + 1

\* A worker calls an operation of the driver: r is its record at the call.
Call(op, arg, cl, hr) ==
    [IdleRec EXCEPT !.pc = "call", !.op = op, !.arg = arg, !.cl = cl, !.hr = hr]

\* this.#connection.<command> with no connection set is a TypeError: the
\* operation rejects.
NoConnection(w, r) ==
    /\ ~conn[w]
    /\ wk' = [wk EXCEPT ![w] = Ret(r, "error", EmptyObj)]
    /\ UNCHANGED <<kv, locks, conn, rows, tx, hist>>

\* `setnx('jobs_available:<q>/<u>', JSON.stringify(job))`: the key is set only
\* when it does not exist; the reply (1 or 0) is not looked at.
Setnx(store, q, u) ==
    IF store[Key("available", q, u)] = Null
    THEN [store EXCEPT ![Key("available", q, u)] = Some(NewJob(q, u))]
    ELSE store

\* storeJob(job): #setConnection, then setnx of the available key.
R_StoreJob(w, r, q, u) ==
    /\ conn' = [conn EXCEPT ![w] = TRUE]
    /\ kv' = Setnx(kv, q, u)
    /\ hist' = Pushed(hist, u)
    /\ wk' = [wk EXCEPT ![w] = Ret(r, "void", EmptyObj)]
    /\ UNCHANGED <<locks, rows, tx>>

\* getJob(queue): #setConnection, then the lookup of `jobs_available:<queue>/*`.
R_GetJob(w, r) ==
    /\ conn' = [conn EXCEPT ![w] = TRUE]
    /\ Lookup(w, r, Pattern("available", r.arg, ANY))
    /\ UNCHANGED <<kv, locks, rows, tx, hist>>

\* getJobByUuid(uuid): #setConnection, then the lookup of `jobs_available:*/<uuid>`.
R_GetJobByUuid(w, r) ==
    /\ conn' = [conn EXCEPT ![w] = TRUE]
    /\ Lookup(w, r, Pattern("available", ANY, r.arg))
    /\ UNCHANGED <<kv, locks, rows, tx, hist>>

\* getFailedJob(queue): the lookup of `jobs_failed:<queue>/*`, with no
\* #setConnection before it.
R_GetFailedJob(w, r) ==
    \/ NoConnection(w, r)
    \/ /\ conn[w]
       /\ Lookup(w, r, Pattern("failed", r.arg, ANY))
       /\ UNCHANGED <<kv, locks, conn, rows, tx, hist>>

\* markJobAsFailed(uuid): the lookup of `jobs_reserved:*<uuid>`, with no
\* #setConnection before it.
R_MarkJobAsFailed(w, r) ==
    \/ NoConnection(w, r)
    \/ /\ conn[w]
       /\ Lookup(w, r, Pattern("reserved", ANY, r.arg))
       /\ UNCHANGED <<kv, locks, conn, rows, tx, hist>>

\* deleteJob(uuid): `keys('jobs_*<uuid>')`, with no #setConnection before it.
R_DeleteJob(w, r) ==
    \/ NoConnection(w, r)
    \/ /\ conn[w]
       /\ \E k \in KeysFirst(Pattern("*", ANY, r.arg)) :
              wk' = [wk EXCEPT ![w] = [r EXCEPT !.pc = "ddel", !.key = k]]
       /\ UNCHANGED <<kv, locks, conn, rows, tx, hist>>

\* deleteJob's `del(jobKey)`: under no lock, whatever prefix the key has.
R_DeleteDel(w) ==
    /\ wk[w].pc = "ddel"
    /\ LET r == wk[w] IN
       \/ /\ r.key # NoKey
          /\ kv' = [kv EXCEPT ![r.key] = Null]
          /\ hist' = IF kv[r.key] # Null THEN Deleted(hist, r.key.u) ELSE hist
          /\ wk' = [wk EXCEPT ![w] = Ret(r, "void", EmptyObj)]
       \/ /\ r.key = NoKey
          /\ \E o \in DelNullOutcomes :
                wk' = [wk EXCEPT ![w] =
                        Ret(r, IF o = "throw" THEN "error" ELSE "void", EmptyObj)]
          /\ UNCHANGED <<kv, hist>>
    /\ UNCHANGED <<locks, conn, rows, tx, ncalls>>

\* #getJobByKey: `get(key)`; the key may be gone by now.
R_Get(w) ==
    /\ wk[w].pc = "get"
    /\ wk' = [wk EXCEPT ![w] = AfterLookup(wk[w], kv[wk[w].key])]
    /\ UNCHANGED <<kv, locks, conn, rows, tx, hist, ncalls>>

\* The lock resource of #markJob: `jobs:locks:<job.queue>/<job.uuid>`.
LockOf(job) == <<job.queue, job.uuid>>

\* What #markJob's failure means for the operation: #reserveJob catches it and
\* returns null, markJobAsFailed lets it through.
MarkJobThrew(r) ==
    IF r.op \in FetchOps THEN Ret(r, "null", EmptyObj) ELSE Ret(r, "error", EmptyObj)

\* redlock.lock: acquired when no one holds the resource.
R_Lock(w) ==
    /\ wk[w].pc = "lock"
    /\ LockOf(wk[w].job[1]) \notin locks
    /\ locks' = locks \cup {LockOf(wk[w].job[1])}
    /\ wk' = [wk EXCEPT ![w].pc = "mkeys", ![w].lk = Some(LockOf(wk[w].job[1]))]
    /\ UNCHANGED <<kv, conn, rows, tx, hist, ncalls>>

\* redlock.lock rejects (the resource is held and the one retry is used up):
\* 'Failed to get a lock'.
R_LockFail(w) ==
    /\ wk[w].pc = "lock"
    /\ LockOf(wk[w].job[1]) \in locks
    /\ wk' = [wk EXCEPT ![w] = MarkJobThrew(wk[w])]
    /\ UNCHANGED <<kv, locks, conn, rows, tx, hist, ncalls>>

\* #markJob under the lock: `keys('jobs_<currentState>:*<uuid>')`.
R_MarkKeys(w) ==
    /\ wk[w].pc = "mkeys"
    /\ \E k \in KeysFirst(Pattern(wk[w].cur, ANY, wk[w].job[1].uuid)) :
          wk' = [wk EXCEPT ![w].pc = "del", ![w].key = k]
    /\ UNCHANGED <<kv, locks, conn, rows, tx, hist, ncalls>>

\* #markJob: `del(keyToDelete)`; keyToDelete is null when no key was found.
R_MarkDel(w) ==
    /\ wk[w].pc = "del"
    /\ LET r == wk[w] IN
       \/ /\ r.key # NoKey
          /\ kv' = [kv EXCEPT ![r.key] = Null]
          /\ wk' = [wk EXCEPT ![w].pc = "set"]
       \/ /\ r.key = NoKey
          /\ \E o \in DelNullOutcomes :
                wk' = [wk EXCEPT ![w] =
                        IF o = "throw"
                        THEN [r EXCEPT !.pc = "unlock", !.fail = TRUE]
                        ELSE [r EXCEPT !.pc = "set"]]
          /\ UNCHANGED kv
    /\ UNCHANGED <<locks, conn, rows, tx, hist, ncalls>>

\* #markJob: `set('jobs_<mark>:<queue>/<uuid>', JSON.stringify(job))`.
R_MarkSet(w) ==
    /\ wk[w].pc = "set"
    /\ LET j == wk[w].job[1] IN
       /\ kv' = [kv EXCEPT ![Key(wk[w].mark, j.queue, j.uuid)] = Some(j)]
       /\ hist' = IF wk[w].mark = "failed" THEN Failed(hist, j.uuid) ELSE hist
    /\ wk' = [wk EXCEPT ![w].pc = "unlock"]
    /\ UNCHANGED <<locks, conn, rows, tx, ncalls>>

\* A #markJob whose catch block would throw without `resourceLock.unlock()`.
UnlockedOnSuccessOnly(held, r) == IF r.fail THEN held ELSE held \ {r.lk[1]}

\* `await resourceLock.unlock()`: the resource is free again.
Unlocked(held, r) == held \ {r.lk[1]}

\* #markJob: `resourceLock.unlock()`, in the catch block or after the set;
\* then #markJob throws 'Failed to reserve job' or returns.
R_Unlock(w) ==
    /\ wk[w].pc = "unlock"
    /\ locks' = Unlocked(locks, wk[w])
    /\ LET r == wk[w] IN
       IF r.fail
       THEN /\ wk' = [wk EXCEPT ![w] = MarkJobThrew(r)]
            /\ UNCHANGED hist
       ELSE IF r.op \in FetchOps
       THEN /\ wk' = [wk EXCEPT ![w] = Ret(r, "job", r.job[1])]
            /\ hist' = Granted(hist, r.job[1].uuid)
       ELSE /\ wk' = [wk EXCEPT ![w] = Ret(r, "void", EmptyObj)]
            /\ UNCHANGED hist
    /\ UNCHANGED <<kv, conn, rows, tx, ncalls>>

\* The first command of driver operation r.op, called with r.arg.
R_Begin(w, r) ==
    CASE r.op = "getJob" -> R_GetJob(w, r)
      [] r.op = "getJobByUuid" -> R_GetJobByUuid(w, r)
      [] r.op = "getFailedJob" -> R_GetFailedJob(w, r)
      [] r.op = "markJobAsFailed" -> R_MarkJobAsFailed(w, r)
      [] r.op = "deleteJob" -> R_DeleteJob(w, r)

\* The steps inside a running Redis operation that finds every lock it asks
\* for free.
R_StepUncontended(w) ==
    \/ R_Get(w)
    \/ R_Lock(w)
    \/ R_MarkKeys(w)
    \/ R_MarkDel(w)
    \/ R_MarkSet(w)
    \/ R_Unlock(w)
    \/ R_DeleteDel(w)

\* The steps inside a running Redis operation.
R_Step(w) ==
    \/ R_StepUncontended(w)
    \/ R_LockFail(w)

\* ------------------------------------------- direct calls of the driver
\* The caller has the result: the worker is free for its next call.
Return(w) ==
    /\ wk[w].pc = "ret"
    /\ wk[w].cl = "none"
    /\ wk' = [wk EXCEPT ![w] = IdleRec]
    /\ UNCHANGED <<kv, locks, conn, rows, tx, hist, ncalls>>

R_CallStoreJob(w) ==
    /\ NewCall(w)
    /\ \E q \in Queues, u \in Uuids :
          R_StoreJob(w, Call("storeJob", u, "none", "none"), q, u)

R_CallByQueue(w) ==
    /\ NewCall(w)
    /\ \E op \in {"getJob", "getFailedJob"}, q \in Queues :
          R_Begin(w, Call(op, q, "none", "none"))

R_CallByUuid(w) ==
    /\ NewCall(w)
    /\ \E op \in {"getJobByUuid", "markJobAsFailed", "deleteJob"}, u \in Uuids :
          R_Begin(w, Call(op, u, "none", "none"))

RedisNext ==
    \E w \in Workers :
        \/ R_CallStoreJob(w)
        \/ R_CallByQueue(w)
        \/ R_CallByUuid(w)
        \/ R_Step(w)
        \/ Return(w)

RedisSpec == Init /\ [][RedisNext]_vars

\* ------------------------------------------- the Redis store failing
\* A command of #markJob's try block (keys, del or set) rejects: the store
\* did not run it, and the catch block follows.
R_CommandFails(w) ==
    /\ wk[w].pc \in {"mkeys", "del", "set"}
    /\ wk' = [wk EXCEPT ![w].pc = "unlock", ![w].fail = TRUE]
    /\ UNCHANGED <<kv, locks, conn, rows, tx, hist, ncalls>>

RedisFaultNext ==
    \/ RedisNext
    \/ \E w \in Workers : R_CommandFails(w)

RedisFaultSpec == Init /\ [][RedisFaultNext]_vars

\* ===================================================== the Sqlite driver
\* The table jobs exists (createJobsDbStructure ran when the store was set up).

\* A transaction mode that does not exclude the other writers (BEGIN DEFERRED,
\* or no transaction at all): every connection may go on.
TxNeverExcludes == TRUE

\* BEGIN EXCLUSIVE TRANSACTION succeeds, and a statement of another connection
\* runs, only while no connection is inside an exclusive transaction.
TxFree == tx = {}

\* The WHERE clause of the select of each fetch operation.
SelectWhere(op, arg, row) ==
    CASE op = "getJob" ->
            row.queue = arg /\ row.failed_at = NullT /\ row.reserved_at = NullT
      [] op = "getJobByUuid" ->
            row.uuid = arg /\ row.reserved_at = NullT
      [] op = "getFailedJob" ->
            row.queue = arg /\ row.failed_at # NullT /\ row.reserved_at = NullT

\* `SELECT ... LIMIT 1` with no ORDER BY: any matching row, or none.
SelectOne(op, arg) ==
    LET found == {u \in Uuids : rows[u] # Null /\ SelectWhere(op, arg, rows[u][1])}
    IN  IF found = {} THEN {Null} ELSE {rows[u] : u \in found}

\* A statement that finds the store locked by another connection's exclusive
\* transaction fails with SQLITE_BUSY once the busy timeout has passed. In
\* #reserveJob the catch block then runs ROLLBACK with no transaction open,
\* which fails too: the operation rejects.
S_Busy(w, r) ==
    /\ ~TxFree
    /\ wk' = [wk EXCEPT ![w] = Ret(r, "error", EmptyObj)]
    /\ UNCHANGED <<kv, locks, conn, rows, tx, hist>>

\* getJob / getJobByUuid / getFailedJob: a new connection, then #reserveJob's
\* BEGIN EXCLUSIVE TRANSACTION.
S_Reserve(w, r) ==
    \/ S_Busy(w, r)
    \/ /\ TxFree
       /\ tx' = tx \cup {w}
       /\ wk' = [wk EXCEPT ![w] = [r EXCEPT !.pc = "select"]]
       /\ UNCHANGED <<kv, locks, conn, rows, hist>>

\* #reserveJob: the select.
S_Select(w) ==
    /\ wk[w].pc = "select"
    /\ \E j \in SelectOne(wk[w].op, wk[w].arg) :
          wk' = [wk EXCEPT ![w].job = j,
                           ![w].pc = IF j = Null THEN "commit" ELSE "update"]
    /\ UNCHANGED <<kv, locks, conn, rows, tx, hist, ncalls>>

\* #reserveJob: `UPDATE jobs SET reserved_at = <timestamp> WHERE uuid = <job.uuid>`.
S_Update(w) ==
    /\ wk[w].pc = "update"
    /\ LET u == wk[w].job[1].uuid IN
       rows' = IF rows[u] = Null THEN rows
               ELSE [rows EXCEPT ![u] = Some([rows[u][1] EXCEPT !.reserved_at = Now])]
    /\ wk' = [wk EXCEPT ![w].pc = "commit"]
    /\ UNCHANGED <<kv, locks, conn, tx, hist, ncalls>>

\* #reserveJob: COMMIT TRANSACTION, then the job selected (or null) is returned.
S_Commit(w) ==
    /\ wk[w].pc = "commit"
    /\ tx' = tx \ {w}
    /\ LET r == wk[w] IN
       IF r.job = Null
       THEN /\ wk' = [wk EXCEPT ![w] = Ret(r, "null", EmptyObj)]
            /\ UNCHANGED hist
       ELSE /\ wk' = [wk EXCEPT ![w] = Ret(r, "job", r.job[1])]
            /\ hist' = Granted(hist, r.job[1].uuid)
    /\ UNCHANGED <<kv, locks, conn, rows, ncalls>>

\* `INSERT INTO jobs(uuid, queue, payload, created_at)`: uuid is the primary
\* key, so the insert of a uuid that has a row fails and changes nothing.
Insert(tbl, q, u) ==
    IF tbl[u] = Null THEN [tbl EXCEPT ![u] = Some(NewJob(q, u))] ELSE tbl

\* storeJob(job): the insert, on the shared connection.
S_StoreJob(w, r, q, u) ==
    \/ S_Busy(w, r)
    \/ /\ TxFree
       /\ rows' = Insert(rows, q, u)
       /\ wk' = [wk EXCEPT ![w] =
                   Ret(r, IF rows[u] = Null THEN "void" ELSE "error", EmptyObj)]
       /\ hist' = Pushed(hist, u)
       /\ UNCHANGED <<kv, locks, conn, tx>>

\* deleteJob(uuid): `DELETE FROM jobs WHERE reserved_at IS NOT NULL AND uuid = ?`.
S_DeleteWhere(row, u) == row.reserved_at # NullT /\ row.uuid = u

S_DeleteJob(w, r) ==
    \/ S_Busy(w, r)
    \/ /\ TxFree
       /\ LET u == r.arg
              hit == u \in Uuids /\ rows[u] # Null /\ S_DeleteWhere(rows[u][1], u)
          IN  /\ rows' = IF hit THEN [rows EXCEPT ![u] = Null] ELSE rows
              /\ hist' = IF hit THEN Deleted(hist, u) ELSE hist
       /\ wk' = [wk EXCEPT ![w] = Ret(r, "void", EmptyObj)]
       /\ UNCHANGED <<kv, locks, conn, tx>>

\* markJobAsFailed(uuid):
\* `UPDATE jobs SET failed_at = ?, reserved_at = NULL WHERE uuid = ?`.
S_MarkJobAsFailed(w, r) ==
    \/ S_Busy(w, r)
    \/ /\ TxFree
       /\ LET u == r.arg
              hit == u \in Uuids /\ rows[u] # Null
          IN  /\ rows' = IF hit
                         THEN [rows EXCEPT ![u] = Some([rows[u][1] EXCEPT
                                        !.failed_at = Now, !.reserved_at = NullT])]
                         ELSE rows
              /\ hist' = IF hit THEN Failed(hist, u) ELSE hist
       /\ wk' = [wk EXCEPT ![w] = Ret(r, "void", EmptyObj)]
       /\ UNCHANGED <<kv, locks, conn, tx>>

\* The first statement of driver operation r.op, called with r.arg.
S_Begin(w, r) ==
    CASE r.op \in FetchOps -> S_Reserve(w, r)
      [] r.op = "markJobAsFailed" -> S_MarkJobAsFailed(w, r)
      [] r.op = "deleteJob" -> S_DeleteJob(w, r)

\* The steps inside a running Sqlite operation.
S_Step(w) ==
    \/ S_Select(w)
    \/ S_Update(w)
    \/ S_Commit(w)

S_CallStoreJob(w) ==
    /\ NewCall(w)
    /\ \E q \in Queues, u \in Uuids :
          S_StoreJob(w, Call("storeJob", u, "none", "none"), q, u)

S_CallByQueue(w) ==
    /\ NewCall(w)
    /\ \E op \in {"getJob", "getFailedJob"}, q \in Queues :
          S_Begin(w, Call(op, q, "none", "none"))

S_CallByUuid(w) ==
    /\ NewCall(w)
    /\ \E op \in {"getJobByUuid", "markJobAsFailed", "deleteJob"}, u \in Uuids :
          S_Begin(w, Call(op, u, "none", "none"))

SqliteNext ==
    \E w \in Workers :
        \/ S_CallStoreJob(w)
        \/ S_CallByQueue(w)
        \/ S_CallByUuid(w)
        \/ S_Step(w)
        \/ Return(w)

SqliteSpec == Init /\ [][SqliteNext]_vars

\* ============================================================ the client
\* QueueClient: pushJob stores a job under a fresh uuid; handleJob,
\* handleJobByUuid and handleFailedJob fetch a job from the driver, run the
\* handler on it, then call deleteJob (the handler returned) or
\* markJobAsFailed (the handler threw) with the job's uuid.
Begin(d, w, r) == IF d = "redis" THEN R_Begin(w, r) ELSE S_Begin(w, r)

\* The fetch operation of each handle operation.
FetchOf(cl) ==
    CASE cl = "handleJob" -> "getJob"
      [] cl = "handleJobByUuid" -> "getJobByUuid"
      [] cl = "handleFailedJob" -> "getFailedJob"

\* pushJob(payload, queue): the uuid generator never repeats a uuid.
C_PushJob(w, d) ==
    /\ NewCall(w)
    /\ \E q \in Queues, u \in Uuids :
          /\ hist[u].pushes = 0
          /\ IF d = "redis"
             THEN R_StoreJob(w, Call("storeJob", u, "pushJob", "none"), q, u)
             ELSE S_StoreJob(w, Call("storeJob", u, "pushJob", "none"), q, u)

\* handleJob(handler, queue) and handleFailedJob(handler, queue).
C_HandleByQueue(w, d) ==
    /\ NewCall(w)
    /\ \E cl \in {"handleJob", "handleFailedJob"}, q \in Queues :
          Begin(d, w, Call(FetchOf(cl), q, cl, "none"))

\* handleJobByUuid(handler, uuid).
C_HandleByUuid(w, d) ==
    /\ NewCall(w)
    /\ \E u \in Uuids :
          Begin(d, w, Call("getJobByUuid", u, "handleJobByUuid", "none"))

\* The end of a client operation: what its caller sees.
Done(r, out) == [r EXCEPT !.pc = "done", !.out = out]

\* The driver's fetch returned: no job ends the operation with 'nothing to
\* do', a rejection is passed on, a job goes to the handler.
C_AfterFetch(w) ==
    /\ wk[w].pc = "ret"
    /\ wk[w].cl # "none"
    /\ wk[w].op \in FetchOps
    /\ wk' = [wk EXCEPT ![w] =
                CASE wk[w].res.kind = "null" -> Done(wk[w], "nothing")
                  [] wk[w].res.kind = "error" -> Done(wk[w], "error")
                  [] wk[w].res.kind = "job" -> [wk[w] EXCEPT !.pc = "handler"]]
    /\ UNCHANGED <<kv, locks, conn, rows, tx, hist, ncalls>>

\* The handler returns (deleteJob follows) or throws (markJobAsFailed follows).
C_Handler(w, d) ==
    /\ wk[w].pc = "handler"
    /\ \E hr \in {"returned", "threw"} :
          Begin(d, w, Call(IF hr = "returned" THEN "deleteJob" ELSE "markJobAsFailed",
                           wk[w].res.job.uuid, wk[w].cl, hr))
    /\ UNCHANGED ncalls

\* deleteJob / markJobAsFailed / storeJob returned: the operation ends with the
\* handler's result or error, or with the driver's error when it rejected.
C_AfterDriver(w) ==
    /\ wk[w].pc = "ret"
    /\ wk[w].cl # "none"
    /\ wk[w].op \notin FetchOps
    /\ wk' = [wk EXCEPT ![w] =
                CASE wk[w].res.kind = "error" -> Done(wk[w], "drivererror")
                  [] wk[w].hr = "returned" -> Done(wk[w], "result")
                  [] wk[w].hr = "threw" -> Done(wk[w], "raised")
                  [] OTHER -> Done(wk[w], "uuid")]
    /\ UNCHANGED <<kv, locks, conn, rows, tx, hist, ncalls>>

\* The caller has the outcome: the worker is free for its next call.
C_Return(w) ==
    /\ wk[w].pc = "done"
    /\ wk' = [wk EXCEPT ![w] = IdleRec]
    /\ UNCHANGED <<kv, locks, conn, rows, tx, hist, ncalls>>

C_Step(w, d) ==
    \/ C_PushJob(w, d)
    \/ C_HandleByQueue(w, d)
    \/ C_HandleByUuid(w, d)
    \/ C_AfterFetch(w)
    \/ C_Handler(w, d)
    \/ C_AfterDriver(w)
    \/ C_Return(w)

RedisClientNext ==
    \E w \in Workers : C_Step(w, "redis") \/ R_Step(w)

RedisClientSpec == Init /\ [][RedisClientNext]_vars

SqliteClientNext ==
    \E w \in Workers : C_Step(w, "sqlite") \/ S_Step(w)

SqliteClientSpec == Init /\ [][SqliteClientNext]_vars

\* ================================================ the two drivers side by side
\* One caller drives a Redis driver and a Sqlite driver through the same
\* sequence of operations, one operation at a time: each operation runs to
\* its end on the Redis driver, then on the Sqlite driver, and the two results
\* are there together before the next operation starts. The caller being
\* alone, no lock is held when an operation asks for it.
RedisWorker == CHOOSE w \in Workers : \A v \in Workers : w <= v
SqliteWorker == CHOOSE w \in Workers \ {RedisWorker} :
                    \A v \in Workers \ {RedisWorker} : w <= v

\* storeJob(job) on both drivers.
P_CallStoreJob ==
    /\ NewCall(RedisWorker)
    /\ wk[SqliteWorker].pc = "idle"
    /\ \E q \in Queues, u \in Uuids :
          LET r == Call("storeJob", u, "none", "none") IN
          /\ conn' = [conn EXCEPT ![RedisWorker] = TRUE]
          /\ kv' = Setnx(kv, q, u)
          /\ rows' = Insert(rows, q, u)
          /\ hist' = Pushed(hist, u)
          /\ wk' = [wk EXCEPT
                     ![RedisWorker] = Ret(r, "void", EmptyObj),
                     ![SqliteWorker] =
                        Ret(r, IF rows[u] = Null THEN "void" ELSE "error", EmptyObj)]
    /\ UNCHANGED <<locks, tx>>

\* One of the other operations, on the Redis driver first.
P_CallRedis ==
    /\ NewCall(RedisWorker)
    /\ wk[SqliteWorker].pc = "idle"
    /\ \/ \E op \in {"getJob", "getFailedJob"}, q \in Queues :
             R_Begin(RedisWorker, Call(op, q, "none", "none"))
       \/ \E op \in {"getJobByUuid", "markJobAsFailed", "deleteJob"}, u \in Uuids :
             R_Begin(RedisWorker, Call(op, u, "none", "none"))

\* The Redis driver has returned: the same operation on the Sqlite driver.
P_CallSqlite ==
    /\ wk[RedisWorker].pc = "ret"
    /\ wk[SqliteWorker].pc = "idle"
    /\ S_Begin(SqliteWorker,
               Call(wk[RedisWorker].op, wk[RedisWorker].arg, "none", "none"))
    /\ UNCHANGED ncalls

\* Both drivers have returned.
PairDone ==
    /\ wk[RedisWorker].pc = "ret"
    /\ wk[SqliteWorker].pc = "ret"

\* The caller has both results: the next operation may start.
P_Return ==
    /\ PairDone
    /\ wk' = [wk EXCEPT ![RedisWorker] = IdleRec, ![SqliteWorker] = IdleRec]
    /\ UNCHANGED <<kv, locks, conn, rows, tx, hist, ncalls>>

PairNext ==
    \/ P_CallStoreJob
    \/ P_CallRedis
    \/ P_CallSqlite
    \/ R_StepUncontended(RedisWorker)
    \/ S_Step(SqliteWorker)
    \/ P_Return

PairSpec == Init /\ [][PairNext]_vars

\* ============================================================ the claims
\* The prefixes under which uuid u has a key.
PrefixesIn(store, u) ==
    {st \in States : \E q \in Queues \cup {UNDEF} : store[Key(st, q, u)] # Null}
PrefixesOf(u) == PrefixesIn(kv, u)

\* Worker w's step ends driver operation op (its result is wk'[w].res).
Returns(w, op) ==
    /\ wk[w].pc # "ret"
    /\ wk'[w].pc = "ret"
    /\ wk'[w].op = op

\* C1: Redis driver, at-most-once reservation: of the fetch calls (getJob,
\* getJobByUuid, getFailedJob) that race for one job, only one returns it:
\* a uuid is never returned a second time unless the job was stored again or
\* put back in Failed in between.
C1_RedisAtMostOnce ==
    \A u \in Uuids : hist[u].grants <= 1

\* C2: Sqlite driver, at-most-once reservation: select and update run inside
\* one exclusive transaction, so no two connections are in a transaction at
\* once, no two of them hold the same selected row, and a uuid is never
\* returned a second time unless the job was stored again or put back in
\* Failed in between.
C2_SqliteAtMostOnce ==
    /\ Cardinality(tx) <= 1
    /\ \A w1, w2 \in Workers :
          (/\ w1 # w2
           /\ wk[w1].pc \in {"update", "commit"}
           /\ wk[w2].pc \in {"update", "commit"}
           /\ wk[w1].job # Null) => wk[w1].job # wk[w2].job
    /\ \A u \in Uuids : hist[u].grants < 2

\* C2, witness: while one getJob call is inside its transaction, the row it
\* selected updated and not yet committed, a concurrent getJob call on the
\* same queue has ended without a job.
C2_Witness ==
    \E w1, w2 \in Workers :
        /\ w1 # w2
        /\ tx = {w1}
        /\ wk[w1].op = "getJob" /\ wk[w2].op = "getJob"
        /\ wk[w1].arg = wk[w2].arg
        /\ wk[w1].pc = "commit" /\ wk[w1].job # Null
        /\ rows[wk[w1].job[1].uuid][1].reserved_at # NullT
        /\ wk[w2].pc = "ret" /\ wk[w2].res.kind # "job"

\* C3: exactly one state per job in the Redis key space: a uuid that was
\* pushed once never has keys under two of the three prefixes.
C3_OnePrefixPerJob ==
    \A u \in Uuids : hist[u].pushes <= 1 => Cardinality(PrefixesOf(u)) <= 1

\* C4: the handler's outcome decides the job's fate: when the deleteJob or
\* markJobAsFailed call of a handle operation returns, the handler having
\* returned, the job has no key left and the driver did not reject; the
\* handler having thrown, the job is in Failed only and the driver did not
\* reject (so the handler's error is the one passed on).
C4_HandlerDecidesFate ==
    [][\A w \in Workers :
          (/\ wk[w].pc # "ret" /\ wk'[w].pc = "ret"
           /\ wk'[w].cl # "none"
           /\ wk'[w].op \in {"deleteJob", "markJobAsFailed"}
           /\ wk'[w].arg \in Uuids)
          => /\ wk'[w].res.kind = "void"
             /\ wk'[w].hr = "returned" => PrefixesIn(kv', wk'[w].arg) = {}
             /\ wk'[w].hr = "threw" => PrefixesIn(kv', wk'[w].arg) = {"failed"}]_vars

\* C5: no job means no handler run: a fetch operation that returns a job
\* returns one it found in the store, never an object made from a null lookup.
C5_NoJobNoHandler ==
    \A w \in Workers :
        (wk[w].pc = "ret" /\ wk[w].op \in FetchOps /\ wk[w].res.kind = "job")
        => wk[w].res.job.uuid \in Uuids

\* C6: getJobByUuid returns a job only when that job is Available: the job it
\* returns was not in Failed when it was selected.
C6_ByUuidOnlyAvailable ==
    \A w \in Workers :
        (wk[w].pc = "ret" /\ wk[w].op = "getJobByUuid" /\ wk[w].res.kind = "job")
        => wk[w].res.job.failed_at = NullT

\* C7: delete requires a prior reservation: the key deleteJob removes is a
\* reserved key.
C7_DeleteOnlyReserved ==
    [][\A w \in Workers : \A k \in KeySpace :
          (Returns(w, "deleteJob") /\ kv[k] # Null /\ kv'[k] = Null)
          => k.st = "reserved"]_vars

\* C8: delete terminality: once deleteJob has removed the job of a uuid and no
\* key of it is left, no key of that uuid appears again (unless the uuid is
\* stored again).
C8_DeleteIsTerminal ==
    [][\A u \in Uuids :
          (hist[u].deleted /\ hist'[u].deleted /\ PrefixesOf(u) = {})
          => PrefixesIn(kv', u) = {}]_vars

\* C9: failure/retry loop: a job that has been put in Failed is never
\* returned by getJob again.
C9_FailedNotReturnedByGetJob ==
    [][\A w \in Workers :
          (Returns(w, "getJob") /\ wk'[w].res.kind = "job"
           /\ wk'[w].res.job.uuid \in Uuids)
          => ~hist[wk'[w].res.job.uuid].failed]_vars

\* C10: storeJob never silently accepts a duplicate: called with a uuid that
\* has a key already, it rejects and leaves the store as it was.
C10_StoreRejectsDuplicate ==
    [][\A w \in Workers :
          (Returns(w, "storeJob") /\ PrefixesOf(wk'[w].arg) # {})
          => (wk'[w].res.kind = "error" /\ kv' = kv)]_vars

\* The abstract state a row is in: Reserved (reserved_at set), Failed
\* (failed_at set, reserved_at null) or Available (both null).
RowState(row) ==
    IF row.reserved_at # NullT THEN "reserved"
    ELSE IF row.failed_at # NullT THEN "failed" ELSE "available"
\* The abstract states the job of uuid u is in, in each store: none when it is
\* deleted (or was never stored).
SqliteStatesOf(u) == IF rows[u] = Null THEN {} ELSE {RowState(rows[u][1])}
RedisStatesOf(u) == PrefixesOf(u)

\* C11: backend uniformity: after every operation of a sequence run on both
\* drivers from an empty store, the two drivers agree on whether a job was
\* returned and every job is in the same abstract state in both stores.
C11_BackendUniformity ==
    PairDone =>
       /\ (wk[RedisWorker].res.kind = "job") <=> (wk[SqliteWorker].res.kind = "job")
       /\ \A u \in Uuids : RedisStatesOf(u) = SqliteStatesOf(u)

\* Worker v is between the del and the set of #markJob for the job of uuid u,
\* and the job it moves is under no prefix meanwhile.
HalfApplied(v, u) ==
    /\ wk[v].pc = "set"
    /\ wk[v].key # NoKey
    /\ wk[v].key.u = u
    /\ ~hist[u].deleted
    /\ PrefixesOf(u) = {}

\* Worker w's step runs a `keys` command that looks for uuid u under all
\* three prefixes at once: deleteJob's `keys('jobs_*<uuid>')`. (The other
\* enumerations look under one prefix each.)
EnumeratesAllPrefixes(w, u) ==
    /\ wk[w].pc = "idle"
    /\ wk'[w].op = "deleteJob"
    /\ wk'[w].arg = u
    /\ wk'[w].pc = "ddel"

\* C12: atomic visibility of a transition in the Redis driver: no key
\* enumeration of a worker that covers the three prefixes runs while another
\* worker is between the del and the set of a move of the job it looks for:
\* it would find the live job under no prefix.
C12_AtomicVisibility ==
    [][\A w, v \in Workers : \A u \in Uuids :
          (w # v /\ HalfApplied(v, u)) => ~EnumeratesAllPrefixes(w, u)]_vars

\* Worker w's step is a del or a set (of #markJob or of deleteJob) that
\* changes key k.
Writes(w, k) ==
    /\ wk[w].pc \in {"del", "set", "ddel"}
    /\ wk'[w].pc # wk[w].pc
    /\ kv'[k] # kv[k]

\* C13: lock-protected mutation in the Redis driver: a del or set that changes
\* a key of a job is done by a worker that holds the lock
\* jobs:locks:<queue>/<uuid> of that job.
C13_WritesUnderLock ==
    [][\A w \in Workers : \A k \in KeySpace :
          (Writes(w, k) /\ k.u \in Uuids)
          => /\ wk[w].lk = Some(<<k.q, k.u>>)
             /\ <<k.q, k.u>> \in locks]_vars

\* C14: unconditional lock release in the Redis driver: a lock is held only by
\* a worker that is inside #markJob, between its lock and its unlock; an
\* operation that has ended, returning or throwing, holds none.
C14_LockReleased ==
    \A l \in locks :
        \E w \in Workers :
            /\ wk[w].pc \in {"mkeys", "del", "set", "unlock"}
            /\ wk[w].lk = Some(l)

\* C14, witness: markJobAsFailed has thrown after its #markJob took the lock,
\* deleted the reserved key and failed on the set (the job, stored once,
\* returned by a fetch, never put in Failed and never deleted by deleteJob,
\* has no key left), and no lock is held.
C14_Witness ==
    \E w \in Workers, u \in Uuids :
        /\ wk[w].pc = "ret"
        /\ wk[w].op = "markJobAsFailed"
        /\ wk[w].arg = u
        /\ wk[w].res.kind = "error"
        /\ hist[u].pushes = 1
        /\ hist[u].grants = 1
        /\ ~hist[u].failed
        /\ ~hist[u].deleted
        /\ PrefixesOf(u) = {}
        /\ locks = {}

\* C15: reservation failures become 'no job': a fetch operation (getJob,
\* getJobByUuid, getFailedJob) that meets a storage or lock failure, such as
\* BEGIN EXCLUSIVE failing because another connection holds the store, ends
\* with no job: it never ends with an exception.
C15_FailuresBecomeNoJob ==
    \A w \in Workers :
        (wk[w].pc = "ret" /\ wk[w].op \in FetchOps) => wk[w].res.kind # "error"

\* C16: Sqlite failed-pool reservation clears failed_at: every row is
\* Available (both timestamps null), Reserved (reserved_at set, failed_at
\* null) or Failed (failed_at set, reserved_at null): no row has both
\* timestamps set.
C16_RowInOneState ==
    \A u \in Uuids :
        rows[u] # Null =>
            ~(rows[u][1].reserved_at # NullT /\ rows[u][1].failed_at # NullT)

\* C17: no phantom jobs in the Redis driver: every key under the three
\* prefixes has the queue and uuid of a job that storeJob stored and that
\* deleteJob has not deleted since; no key is made of undefined parts.
C17_NoPhantomKeys ==
    \A k \in KeySpace :
        kv[k] # Null =>
            /\ k.u \in Uuids
            /\ k.q \in Queues
            /\ hist[k.u].pushes >= 1
            /\ ~hist[k.u].deleted

\* The job of uuid u has been returned by a fetch and is Reserved.
HeldReserved(u) ==
    /\ hist[u].grants >= 1
    /\ PrefixesOf(u) = {"reserved"}

\* No deleteJob, markJobAsFailed or storeJob on uuid u is running or starts
\* in this step.
LeftAlone(u) ==
    \A w \in Workers :
        /\ ~(wk[w].op \in {"deleteJob", "markJobAsFailed", "storeJob"}
               /\ wk[w].arg = u)
        /\ ~(wk'[w].op \in {"deleteJob", "markJobAsFailed", "storeJob"}
               /\ wk'[w].arg = u)

\* C18: no way back to Available: a job that was returned by a fetch and is
\* Reserved, while nobody calls deleteJob or markJobAsFailed on it (nor stores
\* its uuid again), stays Reserved and is not returned by a fetch again.
C18_ReservedStaysReserved ==
    [][\A u \in Uuids :
          (HeldReserved(u) /\ LeftAlone(u))
          => /\ PrefixesIn(kv', u) = {"reserved"}
             /\ hist'[u].grants = hist[u].grants]_vars

\* C19: connection before use in the Redis driver: a worker whose driver
\* instance runs (or has just ended) an operation has its connection set: no
\* operation gets to a store command with this.#connection undefined.
C19_ConnectedBeforeUse ==
    \A w \in Workers : wk[w].op # "none" => conn[w]

\* ------------------------------------------------------------- typing
JobType == [uuid : Uuids \cup {UNDEF}, queue : Queues \cup {UNDEF},
            reserved_at : {NullT, Now}, failed_at : {NullT, Now}]

TypeOK ==
    /\ \A k \in KeySpace : kv[k] = Null \/ kv[k][1] \in JobType
    /\ \A w \in Workers : wk[w].res.job \in JobType
    /\ tx \subseteq Workers

====
